---- MODULE Spec2Model ----
(***************************************************************************)
(* Model of get_args (the command-line argument processor of               *)
(* scene_based_lst) and of the getopt_long scanner it drives.              *)
(*                                                                         *)
(* Strings are sequences of one-character strings, so that prefix tests,   *)
(* the '=' split, truncation by snprintf and the byte count of sprintf are *)
(* computed the way the C code computes them.  argv is a function over     *)
(* 0..argc-1 (C indices); argv[0] is the program name.                     *)
(***************************************************************************)
EXTENDS Integers, Sequences, FiniteSets, TLC

(* ---------------------------------------------------------------- bounds *)
MaxArgs == 3        \* number of tokens after the program name
MaxLongArgs == 1    \* number of tokens in a command line that holds a very long token
MaxCalls == 2       \* calls of get_args in one process (SpecRepeat only)

(* ----------------------------------------------------- program constants *)
SUCCESS == 0
FAILURE == 1
MAX_STR_LEN == 512
PATH_MAX == 4096
NoReturn == 0 - 1          \* get_args has not returned
EOF_OPTS == 0 - 1          \* getopt_long: out of options
CH_QUESTION == 63          \* '?'
CH_h == 104                \* 'h'
CH_i == 105                \* 'i'

(* ------------------------------------------------------- string helpers *)
Rep(ch, n) == [k \in 1..n |-> ch]
Min(a, b) == IF a < b THEN a ELSE b
IsPrefix(s, t) == Len(s) <= Len(t) /\ SubSeq(t, 1, Len(s)) = s
Drop(s, n) == SubSeq(s, n + 1, Len(s))

(* strlen(s) <= 0, the emptiness test of get_args *)
StrlenLE0_neg(s) == Len(s) < 0
StrlenLE0(s) == Len(s) <= 0

(* snprintf(buf, size, "%s", s): at most size-1 characters and a terminator *)
Snprintf_offbyone(size, s) == SubSeq(s, 1, Min(Len(s), size))
Snprintf(size, s) == SubSeq(s, 1, Min(Len(s), size - 1))

(* bytes a "%s"-style write of s puts into its buffer, terminator included *)
BytesWritten(s) == Len(s) + 1

(* ------------------------------------------------------ option registry *)
N_verbose == <<"v","e","r","b","o","s","e">>
N_debug == <<"d","e","b","u","g">>
N_use_tape6 == <<"u","s","e","-","t","a","p","e","6">>
N_xml == <<"x","m","l">>
N_help == <<"h","e","l","p">>

long_options_swapped ==
    << [name |-> N_verbose,   has_arg |-> 0, flag |-> "verbose_flag",   val |-> 1],
       [name |-> N_debug,     has_arg |-> 0, flag |-> "verbose_flag",   val |-> 1],
       [name |-> N_use_tape6, has_arg |-> 0, flag |-> "use_tape6_flag", val |-> 1],
       [name |-> N_xml,       has_arg |-> 1, flag |-> "NULL",           val |-> CH_i],
       [name |-> N_help,      has_arg |-> 0, flag |-> "NULL",           val |-> CH_h] >>
long_options ==
    << [name |-> N_verbose,   has_arg |-> 0, flag |-> "verbose_flag",   val |-> 1],
       [name |-> N_debug,     has_arg |-> 0, flag |-> "debug_flag",     val |-> 1],
       [name |-> N_use_tape6, has_arg |-> 0, flag |-> "use_tape6_flag", val |-> 1],
       [name |-> N_xml,       has_arg |-> 1, flag |-> "NULL",           val |-> CH_i],
       [name |-> N_help,      has_arg |-> 0, flag |-> "NULL",           val |-> CH_h] >>

(* ------------------------------------------------------------ getopt_long *)
DashDash == <<"-","-">>

(* NONOPTION_P: the element does not start with '-' or is exactly "-" *)
NONOPTION_P(tok) == Len(tok) = 0 \/ tok[1] # "-" \/ Len(tok) = 1

(* first index >= oi that is argc or holds an option element *)
RECURSIVE SkipNonopts(_, _, _)
SkipNonopts(av, argc, oi) ==
    IF oi < argc /\ NONOPTION_P(av[oi]) THEN SkipNonopts(av, argc, oi + 1) ELSE oi

(* exchange: swap the non-options av[first..last-1] with the options
   av[last..oi-1], keeping the order inside each block *)
Exchange(av, first, last, oi) ==
    [k \in DOMAIN av |->
        IF k >= first /\ k < oi
        THEN IF k < first + (oi - last)
             THEN av[last + (k - first)]
             ELSE av[first + (k - (first + (oi - last)))]
        ELSE av[k]]

(* length of the option name: up to the first '=' or the end *)
NameLen(nc) ==
    IF \E i \in 1..Len(nc) : nc[i] = "="
    THEN (CHOOSE i \in 1..Len(nc) : nc[i] = "=" /\ \A j \in 1..(i - 1) : nc[j] # "=") - 1
    ELSE Len(nc)

(* getopt_long's answer for an element it rejects: '?' and the element consumed *)
Unknown(oi) ==
    [c |-> CH_QUESTION, optind |-> oi + 1, nextchar |-> <<>>, optarg |-> <<>>,
     hasarg |-> FALSE, index |-> 0, set |-> "NULL"]

(* its answer for an accepted long option: 0 when the entry has a flag pointer
   (the flag is then set to val), else the entry's val *)
Deliver(oi, arg, has, k, p) ==
    [c |-> IF p.flag # "NULL" THEN 0 ELSE p.val, optind |-> oi, nextchar |-> <<>>,
     optarg |-> arg, hasarg |-> has, index |-> k, set |-> p.flag]

Abbrevs(nm) == {k \in DOMAIN long_options : IsPrefix(nm, long_options[k].name)}
SameOption(p, q) == p.has_arg = q.has_arg /\ p.flag = q.flag /\ p.val = q.val

(* index of the registry entry the name selects: an exact match, else the only
   abbreviated match; 0 when there is none or the abbreviation is ambiguous *)
LongMatch(nm) ==
    IF \E k \in DOMAIN long_options : long_options[k].name = nm
    THEN CHOOSE k \in DOMAIN long_options :
            /\ long_options[k].name = nm
            /\ \A j \in DOMAIN long_options : long_options[j].name = nm => k <= j
    ELSE IF Abbrevs(nm) = {} THEN 0
    ELSE IF \A j, k \in Abbrevs(nm) : SameOption(long_options[j], long_options[k])
    THEN CHOOSE k \in Abbrevs(nm) : \A j \in Abbrevs(nm) : k <= j
    ELSE 0

(* the argument handling of entry p = long_options[k]; n = length of the name *)
Found(av, argc, oi, nc, n, k, p) ==
    IF n < Len(nc)
    THEN IF p.has_arg = 0 THEN Unknown(oi)
         ELSE Deliver(oi + 1, Drop(nc, n + 1), TRUE, k, p)
    ELSE IF p.has_arg = 1
    THEN IF oi + 1 < argc THEN Deliver(oi + 2, av[oi + 1], TRUE, k, p)
         ELSE Unknown(oi)
    ELSE Deliver(oi + 1, <<>>, FALSE, k, p)

LongFound(av, argc, oi, nc, n, k) ==
    IF k = 0 THEN Unknown(oi) ELSE Found(av, argc, oi, nc, n, k, long_options[k])

LongSelect(av, argc, oi, nc, n) ==
    LongFound(av, argc, oi, nc, n, LongMatch(SubSeq(nc, 1, n)))

(* process_long_option on the element av[oi], nc = the text after "--" *)
ProcessLongOption(av, argc, oi, nc) == LongSelect(av, argc, oi, nc, NameLen(nc))

(* the next short option character of a "-abc" element; optstring is "" so
   every character is unknown *)
ShortOption(oi, nc) ==
    [c |-> CH_QUESTION, optind |-> IF Tail(nc) = <<>> THEN oi + 1 ELSE oi,
     nextchar |-> Tail(nc), optarg |-> <<>>, hasarg |-> FALSE, index |-> 0,
     set |-> "NULL"]

(* what getopt_long hands back once the element at oi has been reached:
   -1 at the end of argv or (REQUIRE_ORDER) at a non-option, else the option *)
ScanState(av, fn, ln) == [argv |-> av, first_nonopt |-> fn, last_nonopt |-> ln]
Stop(oi) ==
    [c |-> EOF_OPTS, optind |-> oi, nextchar |-> <<>>, optarg |-> <<>>,
     hasarg |-> FALSE, index |-> 0, set |-> "NULL"]
Dispatch(av, argc, oi, fn, ln) ==
    ScanState(av, fn, ln) @@
        IF oi = argc THEN Stop(IF fn # ln THEN fn ELSE oi)
        ELSE IF NONOPTION_P(av[oi]) THEN Stop(oi)
        ELSE IF av[oi][2] = "-" THEN ProcessLongOption(av, argc, oi, Drop(av[oi], 2))
        ELSE ShortOption(oi, Drop(av[oi], 1))

(* the element "--" ends the options: skip it, move it in front of the
   non-options skipped so far, treat everything after it as non-options *)
EndMarker(av, argc, oi, fn, ln) ==
    IF oi # argc /\ av[oi] = DashDash
    THEN IF fn # ln /\ ln # oi + 1
         THEN Dispatch(Exchange(av, fn, ln, oi + 1), argc, argc, fn + (oi + 1 - ln), argc)
         ELSE Dispatch(av, argc, argc, IF fn = ln THEN oi + 1 ELSE fn, argc)
    ELSE Dispatch(av, argc, oi, fn, ln)

(* PERMUTE: skip the non-options at oi and extend the skipped range *)
SkipStage(av, argc, oi, fn) ==
    EndMarker(av, argc, SkipNonopts(av, argc, oi), fn, SkipNonopts(av, argc, oi))

(* PERMUTE: move the options just scanned in front of the skipped non-options *)
Permute(av, argc, oi, fn, ln) ==
    IF fn # ln /\ ln # oi
    THEN SkipStage(Exchange(av, fn, ln, oi), argc, oi, fn + (oi - ln))
    ELSE SkipStage(av, argc, oi, IF ln # oi THEN oi ELSE fn)

(* one call of getopt_long(argc, argv, "", long_options, &option_index).
   g = [optind, nextchar, first_nonopt, last_nonopt]; posix = POSIXLY_CORRECT
   is set in the environment (REQUIRE_ORDER instead of PERMUTE). *)
GetoptLong(av, argc, g, posix) ==
    IF g.nextchar # <<>>
    THEN ScanState(av, g.first_nonopt, g.last_nonopt) @@ ShortOption(g.optind, g.nextchar)
    ELSE IF posix
    THEN EndMarker(av, argc, g.optind, Min(g.first_nonopt, g.optind),
                   Min(g.last_nonopt, g.optind))
    ELSE Permute(av, argc, g.optind, Min(g.first_nonopt, g.optind),
                 Min(g.last_nonopt, g.optind))

(* ------------------------------------------------------------ get_args *)
VARIABLES
    argv0,           \* the command line as the caller passed it (never changed)
    posixly_correct, \* POSIXLY_CORRECT is set in the environment
    argv,            \* argv as getopt_long has permuted it so far
    g,               \* getopt's scanner state: optind, nextchar, first_nonopt, last_nonopt
    c,               \* last value returned by getopt_long
    optarg,          \* getopt's optarg after that call (<<>> when it set none)
    option_index,
    verbose_flag, debug_flag, use_tape6_flag,   \* the function-static flags
    xml_filename,    \* caller's path buffer (contents up to the terminator)
    use_tape6, verbose, debug,                  \* caller's out-parameters
    errmsg_bytes,    \* bytes the last sprintf wrote into errmsg[MAX_STR_LEN]
    out,             \* what was printed and logged, in order
    ret,             \* value returned by get_args, NoReturn while it runs
    pc,              \* "scan", "check", "done" or "crashed"
    calls,           \* calls of get_args made so far in this process
    prev             \* outcome of the previous call (SpecRepeat only)

vars == <<argv0, posixly_correct, argv, g, c, optarg, option_index, verbose_flag, debug_flag,
          use_tape6_flag, xml_filename, use_tape6, verbose, debug, errmsg_bytes, out,
          ret, pc, calls, prev>>

argc == Cardinality(DOMAIN argv)

(* ----- the command lines explored ----- *)
T_prog      == <<"l","s","t">>
T_xml_eq    == <<"-","-","x","m","l","=">>
T_xml_a     == T_xml_eq \o <<"a">>
T_xml_b     == T_xml_eq \o <<"b">>
T_xml_empty == T_xml_eq
T_xml_bare  == <<"-","-","x","m","l">>
T_verbose   == DashDash \o N_verbose
T_debug     == DashDash \o N_debug
T_use_tape6 == DashDash \o N_use_tape6
T_help      == DashDash \o N_help
T_bogus     == <<"-","-","b","o","g","u","s">>
T_foo       == <<"f","o","o">>
T_short     == <<"-","v">>
T_cluster   == <<"-","a","b">>
T_verb      == <<"-","-","v","e","r","b">>
UnknownPrefix == <<"U","n","k","n","o","w","n"," ","o","p","t","i","o","n"," ">>
MsgMissing  ==
    <<"X","M","L"," ","i","n","p","u","t"," ","f","i","l","e"," ","i","s"," ","a"," ",
      "r","e","q","u","i","r","e","d"," ","a","r","g","u","m","e","n","t">>

V_max       == Rep("a", PATH_MAX - 1)              \* longest value that fits
V_over      == V_max \o <<"b","c">>                \* two characters too long
T_xml_max   == T_xml_eq \o V_max
T_xml_over  == T_xml_eq \o V_over
T_bogus_fit == DashDash \o Rep("z", MAX_STR_LEN - Len(UnknownPrefix) - 3)
T_bogus_over == DashDash \o Rep("z", MAX_STR_LEN - Len(UnknownPrefix) - 2)

ShortTokens == {T_xml_a, T_xml_b, T_xml_empty, T_xml_bare, T_verbose, T_debug,
                T_use_tape6, T_help, T_bogus, T_foo, DashDash, T_short, T_cluster,
                T_verb}
LongTokens == {T_xml_max, T_xml_over, T_bogus_fit, T_bogus_over}

SeqsUpTo(S, n) == UNION {[1..k -> S] : k \in 0..n}
LongLists ==
    UNION {{pre \o <<t>> \o post : t \in LongTokens,
                post \in SeqsUpTo(ShortTokens, MaxLongArgs - Len(pre))} :
            pre \in SeqsUpTo(ShortTokens, MaxLongArgs)}
ShortLists == SeqsUpTo(ShortTokens, MaxArgs)

(* argv[0..argc-1] for a token list: the program name, then the tokens *)
MkArgv(toks) == [k \in 0..Len(toks) |-> IF k = 0 THEN T_prog ELSE toks[k]]

G0 == [optind |-> 1, nextchar |-> <<>>, first_nonopt |-> 1, last_nonopt |-> 1]

Init ==
    /\ \/ \E toks \in ShortLists : argv0 = MkArgv(toks)
       \/ \E toks \in LongLists : argv0 = MkArgv(toks)
    /\ posixly_correct \in BOOLEAN
    /\ argv = argv0
    /\ g = G0
    /\ c = 0
    /\ optarg = <<>>
    /\ option_index = 0
    /\ verbose_flag = 0 /\ debug_flag = 0 /\ use_tape6_flag = 0
    /\ xml_filename = <<>>
    /\ use_tape6 = "unset" /\ verbose = "unset" /\ debug = "unset"
    /\ errmsg_bytes = 0
    /\ out = <<>>
    /\ ret = NoReturn
    /\ pc = "scan"
    /\ calls = 1
    /\ prev = [ret |-> NoReturn, xml_filename |-> <<>>, use_tape6 |-> "unset",
               verbose |-> "unset", debug |-> "unset"]

(* ----- pieces of get_args ----- *)
UsageEvent == [kind |-> "usage", text |-> <<>>]
usage_silent(o) == o
usage(o) == Append(o, UsageEvent)

(* RETURN_ERROR (msg, FUNC_NAME, FAILURE): log the message, then return *)
LogError(o, msg) == Append(o, [kind |-> "error", text |-> msg])

(* the switch on the value getopt_long returned *)
SwitchCase_nohelp(cc, flagptr) ==
    IF cc = 0 /\ flagptr # "NULL" THEN "flag"
    ELSE IF cc = 0 THEN "help"
    ELSE IF cc = CH_i THEN "xml"
    ELSE "unknown"
SwitchCase(cc, flagptr) ==
    IF cc = 0 /\ flagptr # "NULL" THEN "flag"
    ELSE IF cc = 0 \/ cc = CH_h THEN "help"
    ELSE IF cc = CH_i THEN "xml"
    ELSE "unknown"

(* case 'i': snprintf(xml_filename, PATH_MAX, "%s", optarg) *)
WriteXml_keepfirst(buf, arg) == IF buf = <<>> THEN Snprintf(PATH_MAX, arg) ELSE buf
WriteXml(buf, arg) == Snprintf(PATH_MAX, arg)

(* sprintf (errmsg, "Unknown option %s", argv[optind - 1]) *)
UnknownMsg(av, oi) == UnknownPrefix \o av[oi - 1]

\* if (flag) out = true; else out = false;  (through the out-pointer)
FlagToBool(flag) == IF flag # 0 THEN "true" ELSE "false"

\* if (verbose) printf ("XML_input_file = %s", xml_filename);
VerboseEcho_always(o, v, path) == Append(o, [kind |-> "echo", text |-> path])
VerboseEcho(o, v, path) ==
    IF v = "true" THEN Append(o, [kind |-> "echo", text |-> path]) ELSE o

(* the call of getopt_long made by the next loop iteration *)
G == GetoptLong(argv, argc, g, posixly_correct)

(* the case of the switch that a result r of getopt_long selects *)
CaseOf(r) == SwitchCase(r.c, IF r.c = 0 THEN long_options[r.index].flag ELSE "NULL")

(* what the call leaves in argv, in getopt's scanner state and in c *)
Scanned(r) ==
    /\ argv' = r.argv
    /\ g' = [optind |-> r.optind, nextchar |-> r.nextchar,
             first_nonopt |-> r.first_nonopt, last_nonopt |-> r.last_nonopt]
    /\ c' = r.c
    /\ optarg' = r.optarg
    /\ option_index' = IF r.index # 0 THEN r.index ELSE option_index

Outs == <<use_tape6, verbose, debug>>
Statics == <<verbose_flag, debug_flag, use_tape6_flag>>
Env == <<argv0, posixly_correct, calls, prev>>

(* c == -1: out of options, leave the loop *)
ScanEnd ==
    /\ pc = "scan"
    /\ \E r \in {G} :
        /\ r.c = EOF_OPTS
        /\ Scanned(r)
    /\ pc' = "check"
    /\ UNCHANGED <<Env, Statics, Outs, xml_filename, errmsg_bytes, out, ret>>

(* case 0 with a flag pointer: getopt_long stored 1 in the flag, nothing else *)
ScanFlag ==
    /\ pc = "scan"
    /\ \E r \in {G} :
        /\ r.c # EOF_OPTS /\ CaseOf(r) = "flag"
        /\ Scanned(r)
        /\ verbose_flag' = IF r.set = "verbose_flag" THEN 1 ELSE verbose_flag
        /\ debug_flag' = IF r.set = "debug_flag" THEN 1 ELSE debug_flag
        /\ use_tape6_flag' = IF r.set = "use_tape6_flag" THEN 1 ELSE use_tape6_flag
    /\ UNCHANGED <<Env, Outs, xml_filename, errmsg_bytes, out, ret, pc>>

(* case 'h' (and case 0 without a flag pointer): usage, return FAILURE *)
ScanHelp ==
    /\ pc = "scan"
    /\ \E r \in {G} :
        /\ r.c # EOF_OPTS /\ CaseOf(r) = "help"
        /\ Scanned(r)
    /\ out' = usage(out)
    /\ ret' = FAILURE
    /\ pc' = "done"
    /\ UNCHANGED <<Env, Statics, Outs, xml_filename, errmsg_bytes>>

(* case 'i': copy the value into the caller's buffer *)
ScanXml ==
    /\ pc = "scan"
    /\ \E r \in {G} :
        /\ r.c # EOF_OPTS /\ CaseOf(r) = "xml"
        /\ Scanned(r)
        /\ xml_filename' = WriteXml(xml_filename, r.optarg)
    /\ UNCHANGED <<Env, Statics, Outs, errmsg_bytes, out, ret, pc>>

(* case '?' / default: build the message, usage, RETURN_ERROR.  When the
   message does not fit errmsg the sprintf writes past the buffer; the call may
   still return (this action) or the process may die (ScanUnknownSmash). *)
ScanUnknown ==
    /\ pc = "scan"
    /\ \E r \in {G} :
        /\ r.c # EOF_OPTS /\ CaseOf(r) = "unknown"
        /\ Scanned(r)
        /\ errmsg_bytes' = BytesWritten(UnknownMsg(r.argv, r.optind))
        /\ out' = LogError(usage(out), UnknownMsg(r.argv, r.optind))
    /\ ret' = FAILURE
    /\ pc' = "done"
    /\ UNCHANGED <<Env, Statics, Outs, xml_filename>>

ScanUnknownSmash ==
    /\ pc = "scan"
    /\ \E r \in {G} :
        /\ r.c # EOF_OPTS /\ CaseOf(r) = "unknown"
        /\ BytesWritten(UnknownMsg(r.argv, r.optind)) > MAX_STR_LEN
        /\ Scanned(r)
        /\ errmsg_bytes' = BytesWritten(UnknownMsg(r.argv, r.optind))
    /\ pc' = "crashed"
    /\ UNCHANGED <<Env, Statics, Outs, xml_filename, out, ret>>

(* if (strlen(xml_filename) <= 0) { usage (); RETURN_ERROR (...); } *)
CheckMissing ==
    /\ pc = "check" /\ StrlenLE0(xml_filename)
    /\ out' = LogError(usage(out), MsgMissing)
    /\ ret' = FAILURE
    /\ pc' = "done"
    /\ UNCHANGED <<Env, argv, g, c, optarg, option_index, Statics, Outs, xml_filename, errmsg_bytes>>

(* set the three out-parameters, echo the path when verbose, return SUCCESS *)
Finish ==
    /\ pc = "check" /\ ~StrlenLE0(xml_filename)
    /\ use_tape6' = FlagToBool(use_tape6_flag)
    /\ verbose' = FlagToBool(verbose_flag)
    /\ debug' = FlagToBool(debug_flag)
    /\ out' = VerboseEcho(out, verbose', xml_filename)
    /\ ret' = SUCCESS
    /\ pc' = "done"
    /\ UNCHANGED <<Env, argv, g, c, optarg, option_index, Statics, xml_filename, errmsg_bytes>>

(* a further call of get_args in the same process, on a fresh copy of the same
   command line and a fresh configuration; the statics and getopt's scanner
   state are whatever the previous call left *)
CallAgain ==
    /\ pc = "done" /\ calls < MaxCalls
    /\ prev' = [ret |-> ret, xml_filename |-> xml_filename, use_tape6 |-> use_tape6,
                verbose |-> verbose, debug |-> debug]
    /\ calls' = calls + 1
    /\ argv' = argv0
    /\ xml_filename' = <<>>
    /\ use_tape6' = "unset" /\ verbose' = "unset" /\ debug' = "unset"
    /\ out' = <<>>
    /\ ret' = NoReturn
    /\ pc' = "scan"
    /\ UNCHANGED <<argv0, posixly_correct, g, c, optarg, option_index, Statics, errmsg_bytes>>

Next ==
    \/ ScanEnd
    \/ ScanFlag
    \/ ScanHelp
    \/ ScanXml
    \/ ScanUnknown
    \/ ScanUnknownSmash
    \/ CheckMissing
    \/ Finish

(* one parse per process *)
Spec == Init /\ [][Next]_vars

(* several parses in one process *)
NextRepeat == Next \/ CallAgain
SpecRepeat == Init /\ [][NextRepeat]_vars

(* ======================================================== properties == *)
(* vocabulary of the properties: the tokens of the command line as passed *)
NTok == Cardinality(DOMAIN argv0) - 1
TokIdx == 1..NTok
Done == pc = "done"
IsXmlTok(t) == IsPrefix(T_xml_eq, t)
XmlValue(t) == Drop(t, Len(T_xml_eq))
IsFlagTok(t) == t \in {T_verbose, T_debug, T_use_tape6}
Appears(t) == \E k \in TokIdx : argv0[k] = t
(* a value cut to the path-length limit: PATH_MAX bytes with the terminator *)
Truncated(v) == IF Len(v) <= PATH_MAX - 1 THEN v ELSE SubSeq(v, 1, PATH_MAX - 1)
(* k is the last --xml=<value> token *)
LastXml(k) == IsXmlTok(argv0[k]) /\ \A j \in TokIdx : j > k => ~IsXmlTok(argv0[j])
(* every token is --xml=<value>, --use-tape6, --verbose or --debug *)
OnlyOptions == \A k \in TokIdx : IsXmlTok(argv0[k]) \/ IsFlagTok(argv0[k])
UsageCount == Cardinality({k \in 1..Len(out) : out[k].kind = "usage"})
EchoCount == Cardinality({k \in 1..Len(out) : out[k].kind = "echo"})
ErrorEvent(msg) == [kind |-> "error", text |-> msg]
EchoEvent(path) == [kind |-> "echo", text |-> path]
(* the three outcomes of a failed parse, told apart by what was emitted *)
HelpRequested == ret = FAILURE /\ out = <<UsageEvent>>
MissingRequiredArgument == ret = FAILURE /\ out = <<UsageEvent, ErrorEvent(MsgMissing)>>
UnrecognizedOption(t) == ret = FAILURE /\ out = <<UsageEvent, ErrorEvent(UnknownPrefix \o t)>>

(* C1, as stated: whenever the command line holds a --xml=<nonempty> token and
   only registry options (--help included), the parse returns SUCCESS with that
   value as the path and every flag that did not appear false. *)
C1_AsStated ==
    (/\ Done
     /\ \A k \in TokIdx : IsXmlTok(argv0[k]) \/ IsFlagTok(argv0[k]) \/ argv0[k] = T_help
     /\ \E k \in TokIdx : IsXmlTok(argv0[k]) /\ XmlValue(argv0[k]) # <<>>)
    => /\ ret = SUCCESS
       /\ \E k \in TokIdx : IsXmlTok(argv0[k]) /\ xml_filename = Truncated(XmlValue(argv0[k]))
       /\ ~Appears(T_verbose) => verbose = "false"
       /\ ~Appears(T_debug) => debug = "false"
       /\ ~Appears(T_use_tape6) => use_tape6 = "false"

(* C1, amended: when every token is --xml=<value>, --use-tape6, --verbose or
   --debug (no --help) and the last --xml=<value> has a non-empty value, the
   parse returns SUCCESS, the path is that value cut to the path-length limit,
   and each of the three booleans is set: true when its flag token appears,
   false when it does not. *)
C1_Success ==
    \A k \in TokIdx :
        (Done /\ OnlyOptions /\ LastXml(k) /\ XmlValue(argv0[k]) # <<>>)
        => /\ ret = SUCCESS
           /\ xml_filename = Truncated(XmlValue(argv0[k]))
           /\ verbose = (IF Appears(T_verbose) THEN "true" ELSE "false")
           /\ debug = (IF Appears(T_debug) THEN "true" ELSE "false")
           /\ use_tape6 = (IF Appears(T_use_tape6) THEN "true" ELSE "false")

C1_Witness ==
    /\ Done /\ OnlyOptions /\ NTok = 3
    /\ Appears(T_xml_a) /\ Appears(T_debug) /\ Appears(T_use_tape6)
    /\ ret = SUCCESS /\ xml_filename = <<"a">>
    /\ verbose = "false" /\ debug = "true"

(* C2: a token that matches no registry entry and is not the value of a
   preceding --xml (a positional word and a short option included), or a final
   --xml without its value, makes the parse fail with the "Unknown option"
   message naming that token, and never return SUCCESS. *)
MatchesRegistry(t) ==
    \/ IsXmlTok(t)
    \/ t = T_xml_bare
    \/ t = T_help
    \/ IsPrefix(DashDash, t) /\ Len(t) > 2 /\ IsPrefix(Drop(t, 2), N_verbose)
    \/ t = T_debug
    \/ t = T_use_tape6
Offending(k) ==
    \/ ~MatchesRegistry(argv0[k]) /\ ~(k > 1 /\ argv0[k - 1] = T_xml_bare)
    \/ argv0[k] = T_xml_bare /\ k = NTok
C2_UnrecognizedFails ==
    (Done /\ \E k \in TokIdx : Offending(k))
    => \E k \in TokIdx : Offending(k) /\ UnrecognizedOption(argv0[k])

HelpFirst(k) ==
    /\ argv0[k] = T_help
    /\ \A j \in TokIdx : j < k => IsXmlTok(argv0[j]) \/ IsFlagTok(argv0[j])
C4_MissingXml ==
    Done => /\ (c = EOF_OPTS /\ xml_filename = <<>>) => MissingRequiredArgument
            /\ ret = SUCCESS => xml_filename # <<>>

C4_Witness ==
    /\ Done /\ c = EOF_OPTS /\ xml_filename = <<>> /\ MissingRequiredArgument
    /\ Appears(T_xml_empty) /\ Appears(T_verbose)

(* C5: a parse that returns FAILURE has emitted the usage text exactly once,
   before anything else it emitted; a parse that has not failed (still running,
   or returned SUCCESS) has emitted it zero times. *)
C5_UsageOnce ==
    /\ ret = FAILURE => (UsageCount = 1 /\ out[1] = UsageEvent)
    /\ ret # FAILURE => UsageCount = 0

C5_Witness ==
    /\ Done /\ ret = FAILURE /\ Len(out) = 2 /\ out[1] = UsageEvent
    /\ out[2].kind = "error" /\ NTok = 3 /\ c = CH_QUESTION

(* C6: repeating an option is no error and the last occurrence wins: with only
   --xml=<value> and flag tokens, the stored path is the value of the last
   --xml token, the parse succeeds exactly when that value is non-empty, and a
   flag is 1 exactly when its token appears, however often. *)
C6_LastWins ==
    \A k \in TokIdx :
        (Done /\ OnlyOptions /\ LastXml(k))
        => /\ xml_filename = Truncated(XmlValue(argv0[k]))
           /\ ret = (IF XmlValue(argv0[k]) # <<>> THEN SUCCESS ELSE FAILURE)
           /\ verbose_flag = (IF Appears(T_verbose) THEN 1 ELSE 0)
           /\ debug_flag = (IF Appears(T_debug) THEN 1 ELSE 0)
           /\ use_tape6_flag = (IF Appears(T_use_tape6) THEN 1 ELSE 0)

C6_Witness ==
    /\ Done /\ NTok = 3
    /\ argv0[1] = T_xml_a /\ argv0[2] = T_xml_b /\ argv0[3] = T_xml_a
    /\ ret = SUCCESS /\ xml_filename = <<"a">>

(* C7: a successful parse with verbose true has printed exactly the line
   XML_input_file = <final path>; a failed parse, and a successful one where
   --verbose was not supplied, has printed no such line. *)
VerboseSupplied ==
    \E k \in TokIdx :
        /\ IsPrefix(DashDash, argv0[k]) /\ Len(argv0[k]) > 2
        /\ IsPrefix(Drop(argv0[k], 2), N_verbose)
C7_VerboseEcho ==
    /\ (ret = SUCCESS /\ verbose = "true") => out = <<EchoEvent(xml_filename)>>
    /\ ret = FAILURE => EchoCount = 0
    /\ (ret = SUCCESS /\ ~VerboseSupplied) => EchoCount = 0

C7_Witness ==
    /\ Done /\ ret = SUCCESS /\ NTok = 3
    /\ argv0[1] = T_xml_a /\ argv0[2] = T_verbose /\ argv0[3] = T_xml_b
    /\ out = <<EchoEvent(<<"b">>)>>

(* C8: a second parse of the same token sequence with a fresh configuration
   returns the same outcome as the first and, when that outcome is SUCCESS, the
   same configuration. *)
C8_SameResult ==
    (Done /\ calls = 2)
    => /\ ret = prev.ret
       /\ ret = SUCCESS =>
            /\ xml_filename = prev.xml_filename
            /\ use_tape6 = prev.use_tape6
            /\ verbose = prev.verbose
            /\ debug = prev.debug

(* C9: right after a --xml value is stored, the path is the value itself when
   it fits the path-length limit and its prefix of that length otherwise, where
   the value is the text after "--xml=" of the token just consumed (unless that
   token as a whole was taken as the value of a bare --xml before it); the
   stored path with its terminator never takes more than PATH_MAX bytes. *)
C9_PathBounded ==
    /\ Len(xml_filename) + 1 <= PATH_MAX
    /\ (pc = "scan" /\ c = CH_i) => xml_filename = Truncated(optarg)
    /\ (pc = "scan" /\ c = CH_i /\ IsXmlTok(argv[g.optind - 1])
            /\ optarg # argv[g.optind - 1])
        => optarg = XmlValue(argv[g.optind - 1])

C9_Witness ==
    /\ pc = "scan" /\ c = CH_i /\ argv[g.optind - 1] = T_xml_over
    /\ xml_filename = V_max /\ optarg = V_over

(* C10: the "Unknown option <token>" message always fits errmsg: the sprintf
   never writes more than MAX_STR_LEN bytes. *)
C10_ErrmsgFits == errmsg_bytes <= MAX_STR_LEN
====
